---- MODULE Spec2Model ----
(***************************************************************************)
(* code-context-extractor: src/main.py.                                    *)
(*                                                                         *)
(* One run of the command line tool: argument check, extraction of the     *)
(* target's lines (read, parse, walk, slice), dependency extraction        *)
(* (second read and parse, collection of defined names and imports, the    *)
(* substring scan) and the final report.                                   *)
(*                                                                         *)
(* Text is a sequence of one-character strings.  A source file is a        *)
(* sequence of physical lines drawn from Pool; each entry carries the      *)
(* line's text and what ast.parse reports for the statement on it.         *)
(***************************************************************************)
EXTENDS Integers, Sequences, FiniteSets

\* ------------------------------------------------------------- bounds
\* Longest source file, in physical lines.
MaxLines == 4
\* Most positional command line arguments.
MaxArgs == 3

\* ------------------------------------------------------------- text
\* The characters of the model in code point order (str comparison in
\* sorted() is by code point).
CharOrder ==
    <<"\n", "\f", " ", "'", "(", ")", "+", ",", ".", "1", ":", "=", "A", "a", "c", "d", "e", "f", "g", "h", "i", "l", "m", "n", "o", "p", "r", "s", "t", "u", "x", "y">>

Ord(c) == CHOOSE i \in 1..Len(CharOrder) : CharOrder[i] = c

\* str.__lt__: lexicographic by code point, a proper prefix is smaller.
RECURSIVE StrLess(_, _)
StrLess(s, t) ==
    IF t = <<>> THEN FALSE
    ELSE IF s = <<>> THEN TRUE
    ELSE IF Head(s) = Head(t) THEN StrLess(Tail(s), Tail(t))
    ELSE Ord(Head(s)) < Ord(Head(t))

\* The characters of identifiers.
IdentChars == {c \in {CharOrder[i] : i \in 1..Len(CharOrder)} :
                  Ord(c) >= Ord("1") /\ c \notin {":", "="}}

\* Contains as a whole-word test: the occurrence must not touch an
\* identifier character on either side.
Contains_WholeWord(line, name) ==
    \E i \in 0..(Len(line) - Len(name)) :
        /\ SubSeq(line, i + 1, i + Len(name)) = name
        /\ (i = 0 \/ line[i] \notin IdentChars)
        /\ (i + Len(name) = Len(line) \/ line[i + Len(name) + 1] \notin IdentChars)

\* `name in line` on str: substring containment.
Contains(line, name) ==
    \E i \in 0..(Len(line) - Len(name)) :
        SubSeq(line, i + 1, i + Len(name)) = name

\* The line boundaries of str.splitlines() among the model's characters
\* (splitlines also splits on \r, \v, \x1c-\x1e, \x85, U+2028, U+2029).
SplitBoundaries == {"\n", "\f"}

\* str.splitlines(): boundaries are dropped, a boundary always ends a
\* line (possibly empty), and text after the last boundary is a line only
\* when it is not empty.
splitlines(s) ==
    LET ends  == {i \in 1..Len(s) : s[i] \in SplitBoundaries}
        n     == Cardinality(ends)
        \* the k-th boundary, 0 before the first
        at(k) == IF k = 0 THEN 0
                 ELSE CHOOSE i \in ends : Cardinality({j \in ends : j <= i}) = k
        ended == [k \in 1..n |-> SubSeq(s, at(k - 1) + 1, at(k) - 1)]
    IN  IF at(n) < Len(s) THEN Append(ended, SubSeq(s, at(n) + 1, Len(s)))
        ELSE ended

\* list[lo:hi] for 0 <= lo, 0 <= hi: clamped to the list.
Slice(list, lo, hi) ==
    SubSeq(list, lo + 1, IF hi < Len(list) THEN hi ELSE Len(list))

\* sorted(set of str)
RECURSIVE sorted(_)
sorted(S) ==
    IF S = {} THEN <<>>
    ELSE LET m == CHOOSE x \in S : \A y \in S \ {x} : StrLess(x, y)
         IN  <<m>> \o sorted(S \ {m})

\* Every order in which a set may be iterated.
Orders(S) ==
    {s \in [1..Cardinality(S) -> S] : \A i, j \in 1..Cardinality(S) : s[i] = s[j] => i = j}

\* ------------------------------------------------------------- files
\* The physical lines source files are made of.  ind is the indentation
\* level; type, name, module and names are the statement node ast.parse
\* builds for the line (name: the declared name of a definition, or the
\* assigned variable of an Assign; <<>> stands for None); block says the
\* statement's body is on the following, deeper lines.
Pool ==
    <<
    \* 'import os'
    [ind |-> 0, type |-> "Import", name |-> <<>>, module |-> <<>>,
     names |-> <<[name |-> <<"o", "s">>, asname |-> <<>>]>>, block |-> FALSE,
     text |-> <<"i", "m", "p", "o", "r", "t", " ", "o", "s">>],
    \* 'from . import a'
    [ind |-> 0, type |-> "ImportFrom", name |-> <<>>, module |-> <<>>,
     names |-> <<[name |-> <<"a">>, asname |-> <<>>]>>, block |-> FALSE,
     text |-> <<"f", "r", "o", "m", " ", ".", " ", "i", "m", "p", "o", "r", "t", " ", "a">>],
    \* '    from m import x as y'
    [ind |-> 1, type |-> "ImportFrom", name |-> <<>>, module |-> <<"m">>,
     names |-> <<[name |-> <<"x">>, asname |-> <<"y">>]>>, block |-> FALSE,
     text |-> <<" ", " ", " ", " ", "f", "r", "o", "m", " ", "m", " ", "i", "m", "p", "o", "r", "t", " ", "x", " ", "a", "s", " ", "y">>],
    \* 'def helper(): return 1'
    [ind |-> 0, type |-> "FunctionDef", name |-> <<"h", "e", "l", "p", "e", "r">>, module |-> <<>>,
     names |-> <<>>, block |-> FALSE,
     text |-> <<"d", "e", "f", " ", "h", "e", "l", "p", "e", "r", "(", ")", ":", " ", "r", "e", "t", "u", "r", "n", " ", "1">>],
    \* 'def target(): return helper() + os.getpid()'
    [ind |-> 0, type |-> "FunctionDef", name |-> <<"t", "a", "r", "g", "e", "t">>, module |-> <<>>,
     names |-> <<>>, block |-> FALSE,
     text |-> <<"d", "e", "f", " ", "t", "a", "r", "g", "e", "t", "(", ")", ":", " ", "r", "e", "t", "u", "r", "n", " ", "h", "e", "l", "p", "e", "r", "(", ")", " ", "+", " ", "o", "s", ".", "g", "e", "t", "p", "i", "d", "(", ")">>],
    \* 'class A:'
    [ind |-> 0, type |-> "ClassDef", name |-> <<"A">>, module |-> <<>>,
     names |-> <<>>, block |-> TRUE,
     text |-> <<"c", "l", "a", "s", "s", " ", "A", ":">>],
    \* '    def a(): return a + a'
    [ind |-> 1, type |-> "FunctionDef", name |-> <<"a">>, module |-> <<>>,
     names |-> <<>>, block |-> FALSE,
     text |-> <<" ", " ", " ", " ", "d", "e", "f", " ", "a", "(", ")", ":", " ", "r", "e", "t", "u", "r", "n", " ", "a", " ", "+", " ", "a">>],
    \* '    cat = 1'
    [ind |-> 1, type |-> "Assign", name |-> <<"c", "a", "t">>, module |-> <<>>,
     names |-> <<>>, block |-> FALSE,
     text |-> <<" ", " ", " ", " ", "c", "a", "t", " ", "=", " ", "1">>],
    \* 'def a(): pass'
    [ind |-> 0, type |-> "FunctionDef", name |-> <<"a">>, module |-> <<>>,
     names |-> <<>>, block |-> FALSE,
     text |-> <<"d", "e", "f", " ", "a", "(", ")", ":", " ", "p", "a", "s", "s">>],
    \* "x = '\x0c'"
    [ind |-> 0, type |-> "Assign", name |-> <<"x">>, module |-> <<>>,
     names |-> <<>>, block |-> FALSE,
     text |-> <<"x", " ", "=", " ", "'", "\f", "'">>],
    \* 'import m, os as o'
    [ind |-> 0, type |-> "Import", name |-> <<>>, module |-> <<>>,
     names |-> <<[name |-> <<"m">>, asname |-> <<>>], [name |-> <<"o", "s">>, asname |-> <<"o">>]>>, block |-> FALSE,
     text |-> <<"i", "m", "p", "o", "r", "t", " ", "m", ",", " ", "o", "s", " ", "a", "s", " ", "o">>]
    >>
NoModule == <<>>

\* The paths and names given on the command line.
ProgName == <<"m", "a", "i", "n", ".", "p", "y">>
SourcePath == <<"m", ".", "p", "y">>
ExtraArg == <<"x">>
Targets == {<<"a">>, <<"A">>, <<"t", "a", "r", "g", "e", "t">>, <<"x">>}

\* Every file of at most MaxLines lines, as indices into Pool.
RECURSIVE SeqsUpTo(_, _)
SeqsUpTo(S, n) ==
    IF n = 0 THEN {<<>>}
    ELSE LET shorter == SeqsUpTo(S, n - 1)
         IN  shorter \cup {Append(s, x) : s \in {t \in shorter : Len(t) = n - 1}, x \in S}

Files == SeqsUpTo(1..Len(Pool), MaxLines)

\* file.read() in text mode: every line followed by a newline.
RECURSIVE FileText(_)
FileText(lines) ==
    IF lines = <<>> THEN <<>>
    ELSE Pool[Head(lines)].text \o <<"\n">> \o FileText(Tail(lines))

\* ------------------------------------------------------------- ast.parse
\* Indentation the parser accepts: a block statement is followed by a
\* deeper line, no other line is; the file does not end on a block header.
SyntaxOk(lines) ==
    \A i \in 1..Len(lines) :
        LET prevInd   == IF i = 1 THEN 0 ELSE Pool[lines[i - 1]].ind
            prevBlock == i > 1 /\ Pool[lines[i - 1]].block
        IN  /\ IF prevBlock THEN Pool[lines[i]].ind = prevInd + 1
                            ELSE Pool[lines[i]].ind <= prevInd
            /\ (i = Len(lines) => ~Pool[lines[i]].block)

\* The statement enclosing line i (0: the Module).
ParentOf(lines, i) ==
    LET above == {j \in 1..(i - 1) : Pool[lines[j]].ind < Pool[lines[i]].ind}
    IN  IF above = {} THEN 0 ELSE CHOOSE j \in above : \A k \in above : k <= j

\* end_lineno: the last line of the statement's body.
EndOf(lines, i) ==
    LET inside == {k \in i..Len(lines) :
                      \A m \in (i + 1)..k : Pool[lines[m]].ind > Pool[lines[i]].ind}
    IN  IF Pool[lines[i]].block THEN CHOOSE k \in inside : \A m \in inside : m <= k
        ELSE i

IsDefType(type) == type \in {"FunctionDef", "ClassDef"}

\* The node of the statement on line i.  Only definitions have a name
\* attribute; an Assign holds its variable in a child Name node.
StmtNode(lines, i) ==
    LET l == Pool[lines[i]]
    IN  [type |-> l.type,
         name |-> IF IsDefType(l.type) THEN l.name ELSE <<>>,
         lineno |-> i, end_lineno |-> EndOf(lines, i),
         parent |-> ParentOf(lines, i),
         module |-> l.module, names |-> l.names]

\* The Name node (ctx Store) of the variable assigned on line i.
NameNode(lines, i) ==
    [type |-> "Name", name |-> Pool[lines[i]].name,
     lineno |-> i, end_lineno |-> i, parent |-> i,
     module |-> NoModule, names |-> <<>>]

RECURSIVE NameNodes(_, _)
NameNodes(lines, i) ==
    IF i > Len(lines) THEN <<>>
    ELSE (IF Pool[lines[i]].type = "Assign" THEN <<NameNode(lines, i)>> ELSE <<>>)
         \o NameNodes(lines, i + 1)

\* ast.parse: the nodes of the Module (node k's parent is a node index,
\* 0 for the Module itself), or a SyntaxError.
Parse(lines) ==
    IF SyntaxOk(lines)
    THEN [ok |-> TRUE,
          body |-> [i \in 1..Len(lines) |-> StmtNode(lines, i)] \o NameNodes(lines, 1)]
    ELSE [ok |-> FALSE, body |-> <<>>]

\* ast.iter_child_nodes: the children of node p in field order.
RECURSIVE ChildrenFrom(_, _, _)
ChildrenFrom(tree, p, k) ==
    IF k > Len(tree) THEN <<>>
    ELSE (IF tree[k].parent = p THEN <<k>> ELSE <<>>) \o ChildrenFrom(tree, p, k + 1)

\* ast.walk: breadth first from the Module, a queue of nodes to visit.
RECURSIVE WalkQueue(_, _, _)
WalkQueue(tree, todo, visited) ==
    IF todo = <<>> THEN visited
    ELSE WalkQueue(tree, Tail(todo) \o ChildrenFrom(tree, Head(todo), 1),
                   Append(visited, Head(todo)))

walk(tree) == WalkQueue(tree, <<0>>, <<>>)

\* ------------------------------------------------------------- state
VARIABLES
    sys_argv,       \* sys.argv: the program name, then the positional arguments
    disk,           \* the file at SourcePath: [exists, lines]
    pc,             \* the statement the run is at
    caller,         \* which function called read_and_parse_source
    open_handles,   \* file handles currently held
    opens,          \* file handles acquired so far
    source_code,    \* read_and_parse_source: the text read
    node,           \* read_and_parse_source: the parse result
    start_lineno,   \* extract_method_or_cls_content: child.lineno of the match
    end_lineno,     \* extract_method_or_cls_content: child.end_lineno of the match
    target_content_lines,   \* [bound, lines]: unbound until a match assigns it
    extracted_content,      \* the ExtractedContent returned by the extraction
    in_file_defined_funcs_and_classes,  \* sorted list of defined names
    in_file_imports,        \* the set of import names, in its iteration order
    dependencies,           \* extract_dependencies: the list built by the scan
    extracted_content_with_deps,
    stdout,         \* what print() has written
    error,          \* the exception that ended the run, "" if none
    exit_code,      \* the code passed to sys.exit, -1 if not called
    run,            \* 1 for the first process, 2 for a second one
    first_dependencies      \* the dependencies of the first process

vars ==
    <<sys_argv, disk, pc, caller, open_handles, opens, source_code, node,
      start_lineno, end_lineno, target_content_lines, extracted_content,
      in_file_defined_funcs_and_classes, in_file_imports, dependencies,
      extracted_content_with_deps, stdout, error, exit_code, run,
      first_dependencies>>

\* The ExtractedContent dataclass.
ExtractedContent(filename, content, deps) ==
    [filename |-> filename, content |-> content, dependencies |-> deps]

NoContent == ExtractedContent(<<>>, <<>>, <<>>)
Unbound == [bound |-> FALSE, lines |-> <<>>]
NoTree == [ok |-> FALSE, body |-> <<>>]

\* One call of print(): a fixed message, a str argument, or a list of str.
Printed(head, text, list) == [head |-> head, text |-> text, list |-> list]

UsageMessage ==
    Printed("Usage: python main.py <source_path> <method_or_class_name>", <<>>, <<>>)

\* for name in names: print(name)
RECURSIVE PrintEach(_)
PrintEach(names) ==
    IF names = <<>> THEN <<>>
    ELSE <<Printed("", Head(names), <<>>)>> \o PrintEach(Tail(names))

\* A process before main() runs.
Fresh ==
    /\ pc = "main"
    /\ caller = ""
    /\ open_handles = 0
    /\ opens = 0
    /\ source_code = <<>>
    /\ node = NoTree
    /\ start_lineno = 0
    /\ end_lineno = 0
    /\ target_content_lines = Unbound
    /\ extracted_content = NoContent
    /\ in_file_defined_funcs_and_classes = <<>>
    /\ in_file_imports = <<>>
    /\ dependencies = <<>>
    /\ extracted_content_with_deps = NoContent
    /\ stdout = <<>>
    /\ error = ""
    /\ exit_code = -1

\* The command lines: the program name and up to MaxArgs positional
\* arguments (the path, a target name, then extra arguments).
CommandLines ==
    {<<ProgName>>, <<ProgName, SourcePath>>}
    \cup {<<ProgName, SourcePath, t>> \o [i \in 1..n |-> ExtraArg] :
            t \in Targets, n \in 0..(MaxArgs - 2)}

\* The file system: no file at the path, or any file of the bound.
Disks ==
    {[exists |-> FALSE, lines |-> <<>>]}
    \cup {[exists |-> TRUE, lines |-> f] : f \in Files}

Init ==
    /\ sys_argv \in CommandLines
    /\ disk \in Disks
    /\ run = 1
    /\ first_dependencies = <<>>
    /\ Fresh

source_path == sys_argv[2]
method_or_cls == sys_argv[3]

\* ------------------------------------------------------------- main
\* WrongArgCount testing only for too few arguments.
WrongArgCount_TooFew(argv) == Len(argv) < 3

\* main, line 102: the argument count test.
WrongArgCount(argv) == Len(argv) # 3

\* main, lines 102-108: usage and exit, or the call of the extraction.
Main ==
    /\ pc = "main"
    /\ IF WrongArgCount(sys_argv)
       THEN /\ stdout' = Append(stdout, UsageMessage)
            /\ exit_code' = 1
            /\ pc' = "exited"
            /\ UNCHANGED caller
       ELSE /\ pc' = "open"
            /\ caller' = "extract_method_or_cls_content"
            /\ UNCHANGED <<stdout, exit_code>>
    /\ UNCHANGED <<sys_argv, disk, open_handles, opens, source_code, node,
                   start_lineno, end_lineno, target_content_lines,
                   extracted_content, in_file_defined_funcs_and_classes,
                   in_file_imports, dependencies, extracted_content_with_deps,
                   error, run, first_dependencies>>

\* ------------------------------------------------------------- read_and_parse_source
\* Line 16, open(): the handle is acquired, or the path names no file.
Open ==
    /\ pc = "open"
    /\ IF disk.exists
       THEN /\ open_handles' = open_handles + 1
            /\ opens' = opens + 1
            /\ pc' = "read"
            /\ UNCHANGED error
       ELSE /\ error' = "FileNotFoundError"
            /\ pc' = "failed"
            /\ UNCHANGED <<open_handles, opens>>
    /\ UNCHANGED <<sys_argv, disk, caller, source_code, node, start_lineno,
                   end_lineno, target_content_lines, extracted_content,
                   in_file_defined_funcs_and_classes, in_file_imports,
                   dependencies, extracted_content_with_deps, stdout,
                   exit_code, run, first_dependencies>>

\* Line 17, file.read().
Read ==
    /\ pc = "read"
    /\ source_code' = FileText(disk.lines)
    /\ pc' = "parse"
    /\ UNCHANGED <<sys_argv, disk, caller, open_handles, opens, node,
                   start_lineno, end_lineno, target_content_lines,
                   extracted_content, in_file_defined_funcs_and_classes,
                   in_file_imports, dependencies, extracted_content_with_deps,
                   stdout, error, exit_code, run, first_dependencies>>

\* Line 18, ast.parse(source_code), inside the with block.  The text parsed
\* is the text just read: the statements of the file's lines.
ParseSource ==
    /\ pc = "parse"
    /\ node' = Parse(disk.lines)
    /\ pc' = "with_exit"
    /\ UNCHANGED <<sys_argv, disk, caller, open_handles, opens, source_code,
                   start_lineno, end_lineno, target_content_lines,
                   extracted_content, in_file_defined_funcs_and_classes,
                   in_file_imports, dependencies, extracted_content_with_deps,
                   stdout, error, exit_code, run, first_dependencies>>

\* Released without the close: the handle stays held.
Released_Leak(handles) == handles

\* The handles held once the with block of line 16 is left.
Released(handles) == handles - 1

\* Lines 16-19: leaving the with block closes the file; then the
\* SyntaxError propagates or the function returns to its caller.
WithExit ==
    /\ pc = "with_exit"
    /\ open_handles' = Released(open_handles)
    /\ IF node.ok
       THEN /\ pc' = IF caller = "extract_method_or_cls_content"
                     THEN "locate" ELSE "collect_defs"
            /\ UNCHANGED error
       ELSE /\ error' = "SyntaxError"
            /\ pc' = "failed"
    /\ UNCHANGED <<sys_argv, disk, caller, opens, source_code, node,
                   start_lineno, end_lineno, target_content_lines,
                   extracted_content, in_file_defined_funcs_and_classes,
                   in_file_imports, dependencies, extracted_content_with_deps,
                   stdout, exit_code, run, first_dependencies>>

\* ------------------------------------------------------------- extract_method_or_cls_content
\* FirstMatch without the break: a later match overrides an earlier one.
RECURSIVE FirstMatch_NoBreak(_, _, _)
FirstMatch_NoBreak(tree, order, target) ==
    IF order = <<>> THEN 0
    ELSE LET later == FirstMatch_NoBreak(tree, Tail(order), target)
         IN  IF later # 0 THEN later
             ELSE IF /\ Head(order) # 0
                     /\ IsDefType(tree[Head(order)].type)
                     /\ tree[Head(order)].name = target
                  THEN Head(order)
                  ELSE 0

\* Lines 27-28 and 32: the first node of the walk that is a function or
\* class definition named target (0: the loop ends without a match).
RECURSIVE FirstMatch(_, _, _)
FirstMatch(tree, order, target) ==
    IF order = <<>> THEN 0
    ELSE IF /\ Head(order) # 0
            /\ IsDefType(tree[Head(order)].type)
            /\ tree[Head(order)].name = target
         THEN Head(order)
         ELSE FirstMatch(tree, Tail(order), target)

\* Line 31: source_code.splitlines()[start_lineno - 1:end_lineno]
TargetLines(text, start, end) == Slice(splitlines(text), start - 1, end)

\* Lines 27-32: the search loop and, on a match, the slice.
Locate ==
    /\ pc = "locate"
    /\ LET child == FirstMatch(node.body, walk(node.body), method_or_cls)
       IN  IF child = 0
           THEN UNCHANGED <<start_lineno, end_lineno, target_content_lines>>
           ELSE /\ start_lineno' = node.body[child].lineno
                /\ end_lineno' = node.body[child].end_lineno
                /\ target_content_lines' =
                       [bound |-> TRUE,
                        lines |-> TargetLines(source_code, node.body[child].lineno,
                                              node.body[child].end_lineno)]
    /\ pc' = "check"
    /\ UNCHANGED <<sys_argv, disk, caller, open_handles, opens, source_code,
                   node, extracted_content, in_file_defined_funcs_and_classes,
                   in_file_imports, dependencies, extracted_content_with_deps,
                   stdout, error, exit_code, run, first_dependencies>>

\* Lines 34-37 (and main, lines 108-109): reading target_content_lines
\* when no match bound it raises UnboundLocalError; an empty list raises
\* the ValueError; otherwise the content is returned and the dependency
\* step is called.
CheckFound ==
    /\ pc = "check"
    /\ IF ~target_content_lines.bound
       THEN /\ error' = "UnboundLocalError"
            /\ pc' = "failed"
            /\ UNCHANGED <<extracted_content, caller>>
       ELSE IF target_content_lines.lines = <<>>
       THEN /\ error' = "ValueError"
            /\ pc' = "failed"
            /\ UNCHANGED <<extracted_content, caller>>
       ELSE /\ extracted_content' =
                   ExtractedContent(source_path, target_content_lines.lines, <<>>)
            /\ caller' = "extract_dependencies"
            /\ pc' = "open"
            /\ UNCHANGED error
    /\ UNCHANGED <<sys_argv, disk, open_handles, opens, source_code, node,
                   start_lineno, end_lineno, target_content_lines,
                   in_file_defined_funcs_and_classes, in_file_imports,
                   dependencies, extracted_content_with_deps, stdout,
                   exit_code, run, first_dependencies>>

\* ------------------------------------------------------------- extract_dependencies
\* Lines 44-48: the names of the function and class definitions of the walk.
RECURSIVE DefinedNames(_, _)
DefinedNames(tree, order) ==
    IF order = <<>> THEN {}
    ELSE (IF Head(order) # 0 /\ IsDefType(tree[Head(order)].type)
          THEN {tree[Head(order)].name} ELSE {})
         \cup DefinedNames(tree, Tail(order))

\* Lines 44-59: the sorted defined names, printed.
CollectDefs ==
    /\ pc = "collect_defs"
    /\ LET names == sorted(DefinedNames(node.body, walk(node.body)))
       IN  /\ in_file_defined_funcs_and_classes' = names
           /\ stdout' = stdout
                  \o <<Printed("These are all the function and classnames in the Source Code:",
                               <<>>, <<>>)>>
                  \o PrintEach(names)
    /\ pc' = "collect_imports"
    /\ UNCHANGED <<sys_argv, disk, caller, open_handles, opens, source_code,
                   node, start_lineno, end_lineno, target_content_lines,
                   extracted_content, in_file_imports, dependencies,
                   extracted_content_with_deps, error, exit_code, run,
                   first_dependencies>>

\* ImportFromName dropping the module.
ImportFromName_NoModule(module, alias) == alias.name

\* Line 68: the name a from-import adds for one alias.
ImportFromName(module, alias) ==
    IF module = NoModule THEN alias.name ELSE module \o <<".">> \o alias.name

\* Lines 63-68: the names one node adds to in_file_imports.
NodeImports(n) ==
    IF n.type = "Import"
    THEN {n.names[i].name : i \in 1..Len(n.names)}
    ELSE IF n.type = "ImportFrom"
    THEN {ImportFromName(n.module, n.names[i]) : i \in 1..Len(n.names)}
    ELSE {}

\* Lines 61-68: the set built over the walk.
RECURSIVE ImportNames(_, _)
ImportNames(tree, order) ==
    IF order = <<>> THEN {}
    ELSE (IF Head(order) # 0 THEN NodeImports(tree[Head(order)]) ELSE {})
         \cup ImportNames(tree, Tail(order))

\* Lines 61-71: the set of import names, printed.  A set of str iterates
\* in an order fixed by the process's string hash seed: any order, the
\* same one each time this process iterates the set.
CollectImports ==
    /\ pc = "collect_imports"
    /\ \E order \in Orders(ImportNames(node.body, walk(node.body))) :
           /\ in_file_imports' = order
           /\ stdout' = stdout
                  \o <<Printed("These are all the imports in the Source Code:", <<>>, <<>>)>>
                  \o PrintEach(order)
    /\ pc' = "scan"
    /\ UNCHANGED <<sys_argv, disk, caller, open_handles, opens, source_code,
                   node, start_lineno, end_lineno, target_content_lines,
                   extracted_content, in_file_defined_funcs_and_classes,
                   dependencies, extracted_content_with_deps, error,
                   exit_code, run, first_dependencies>>

\* ScanNames skipping a name the list already holds.
RECURSIVE ScanNames_Dedup(_, _, _)
ScanNames_Dedup(line, names, deps) ==
    IF names = <<>> THEN deps
    ELSE ScanNames_Dedup(line, Tail(names),
                   IF /\ Contains(line, Head(names))
                      /\ \A i \in 1..Len(deps) : deps[i] # Head(names)
                   THEN Append(deps, Head(names))
                   ELSE deps)

\* Lines 75-77 and 78-80: one pass over a list of names for one line.
RECURSIVE ScanNames(_, _, _)
ScanNames(line, names, deps) ==
    IF names = <<>> THEN deps
    ELSE ScanNames(line, Tail(names),
                   IF Contains(line, Head(names)) THEN Append(deps, Head(names))
                   ELSE deps)

\* Lines 74-80: every line, the defined names and then the import names.
RECURSIVE ScanLines(_, _, _, _)
ScanLines(content, defined, imports, deps) ==
    IF content = <<>> THEN deps
    ELSE ScanLines(Tail(content), defined, imports,
                   ScanNames(Head(content), imports,
                             ScanNames(Head(content), defined, deps)))

\* Lines 73-86: the scan of the content, printed.
Scan ==
    /\ pc = "scan"
    /\ LET deps == ScanLines(extracted_content.content,
                             in_file_defined_funcs_and_classes,
                             in_file_imports, <<>>)
       IN  /\ dependencies' = deps
           /\ stdout' = stdout
                  \o <<Printed("These are all the dependencies within the target content:",
                               <<>>, <<>>)>>
                  \o PrintEach(deps)
    /\ pc' = "add_dependencies"
    /\ UNCHANGED <<sys_argv, disk, caller, open_handles, opens, source_code,
                   node, start_lineno, end_lineno, target_content_lines,
                   extracted_content, in_file_defined_funcs_and_classes,
                   in_file_imports, extracted_content_with_deps, error,
                   exit_code, run, first_dependencies>>

\* ------------------------------------------------------------- add_dependencies_to_extracted_content
\* Lines 90-96: a new ExtractedContent with the dependencies.
AddDependencies ==
    /\ pc = "add_dependencies"
    /\ extracted_content_with_deps' =
           ExtractedContent(extracted_content.filename, extracted_content.content,
                            dependencies)
    /\ pc' = "report"
    /\ UNCHANGED <<sys_argv, disk, caller, open_handles, opens, source_code,
                   node, start_lineno, end_lineno, target_content_lines,
                   extracted_content, in_file_defined_funcs_and_classes,
                   in_file_imports, dependencies, stdout, error, exit_code,
                   run, first_dependencies>>

\* main, lines 111-113: the final report.
Report ==
    /\ pc = "report"
    /\ stdout' = stdout
           \o <<Printed("Filename: ", extracted_content_with_deps.filename, <<>>),
                Printed("Content:", <<>>, <<>>),
                Printed("", <<>>, extracted_content_with_deps.content)>>
    /\ pc' = "done"
    /\ UNCHANGED <<sys_argv, disk, caller, open_handles, opens, source_code,
                   node, start_lineno, end_lineno, target_content_lines,
                   extracted_content, in_file_defined_funcs_and_classes,
                   in_file_imports, dependencies, extracted_content_with_deps,
                   error, exit_code, run, first_dependencies>>

\* ------------------------------------------------------------- specifications
Next ==
    \/ Main
    \/ Open
    \/ Read
    \/ ParseSource
    \/ WithExit
    \/ Locate
    \/ CheckFound
    \/ CollectDefs
    \/ CollectImports
    \/ Scan
    \/ AddDependencies
    \/ Report

\* One run of the program.
Spec == Init /\ [][Next]_vars

\* The program is started again on the same command line and the same
\* file once the first process has reported: a new process, its own hash
\* seed.
Rerun ==
    /\ pc = "done"
    /\ run = 1
    /\ run' = 2
    /\ first_dependencies' = dependencies
    /\ pc' = "main"
    /\ caller' = ""
    /\ open_handles' = 0
    /\ opens' = 0
    /\ source_code' = <<>>
    /\ node' = NoTree
    /\ start_lineno' = 0
    /\ end_lineno' = 0
    /\ target_content_lines' = Unbound
    /\ extracted_content' = NoContent
    /\ in_file_defined_funcs_and_classes' = <<>>
    /\ in_file_imports' = <<>>
    /\ dependencies' = <<>>
    /\ extracted_content_with_deps' = NoContent
    /\ stdout' = <<>>
    /\ error' = ""
    /\ exit_code' = -1
    /\ UNCHANGED <<sys_argv, disk>>

NextTwice == Next \/ Rerun

SpecTwice == Init /\ [][NextTwice]_vars

\* ------------------------------------------------------------- properties
\* What the properties say of a file is read off its lines, not off the
\* parse tree the run builds.

\* The text of the file's physical lines, as the parser numbers them.
FileLines == [i \in 1..Len(disk.lines) |-> Pool[disk.lines[i]].text]

\* The lines holding a function or class definition.
DefLines == {i \in 1..Len(disk.lines) : Pool[disk.lines[i]].type \in {"FunctionDef", "ClassDef"}}

\* The lines holding a definition named name.
DefLinesNamed(name) == {i \in DefLines : Pool[disk.lines[i]].name = name}

FileDefinedNames == {Pool[disk.lines[i]].name : i \in DefLines}

\* name occurs in line with its first character at position i.
OccursAt(name, line, i) ==
    /\ i + Len(name) - 1 <= Len(line)
    /\ \A k \in 1..Len(name) : line[i + k - 1] = name[k]

Occurrences(name, line) == Cardinality({i \in 1..Len(line) : OccursAt(name, line, i)})

Occurs(name, line) == \E i \in 1..Len(line) : OccursAt(name, line, i)

Count(list, x) == Cardinality({i \in 1..Len(list) : list[i] = x})

Elements(list) == {list[i] : i \in 1..Len(list)}

RECURSIVE Sum(_, _)
Sum(f, n) == IF n = 0 THEN 0 ELSE f[n] + Sum(f, n - 1)

\* The run was given two arguments and a file that parses.
Parsed == Len(sys_argv) = 3 /\ disk.exists /\ node.ok

\* The extraction has returned.
Extracted == extracted_content # NoContent

AfterLocate == pc \notin {"main", "open", "read", "parse", "with_exit", "locate"} \/ Extracted
AfterImports == pc \in {"scan", "add_dependencies", "report", "done"}
AfterScan == pc \in {"add_dependencies", "report", "done"}

\* C1: for a file that parses and a target that no function or class
\* definition of the file declares, the extraction fails with the
\* ValueError of line 35 and with no other error.
C1_TargetNotFoundError ==
    (Parsed /\ DefLinesNamed(method_or_cls) = {} /\ AfterLocate /\ pc # "check")
        => (pc = "failed" /\ error = "ValueError")

\* C2: the content returned for a match with span (start_lineno,
\* end_lineno) is exactly the file's lines start_lineno..end_lineno.
C2_ContentIsTheSpan ==
    Extracted =>
        extracted_content.content = SubSeq(FileLines, start_lineno, end_lineno)

\* C3: with a number of positional arguments other than two, the run
\* prints the usage message once, exits with code 1, prints nothing else,
\* never opens the file and runs no extraction step.
C3_UsageAndExit ==
    Len(sys_argv) # 3 =>
        /\ pc \in {"main", "exited"}
        /\ pc = "main" => (stdout = <<>> /\ exit_code = -1)
        /\ pc = "exited" => (stdout = <<UsageMessage>> /\ exit_code = 1)
        /\ opens = 0 /\ open_handles = 0
        /\ source_code = <<>> /\ node = NoTree
        /\ ~Extracted /\ dependencies = <<>> /\ error = ""

C3_Witness == Len(sys_argv) = 4 /\ pc = "exited" /\ stdout = <<UsageMessage>>

\* The defined names occurring in line, ascending by code point.
DefinedHits(line) ==
    LET hits == {n \in FileDefinedNames : Occurs(n, line)}
    IN  CHOOSE s \in Orders(hits) :
            \A i, j \in 1..Len(s) : i < j => StrLess(s[i], s[j])

\* The import names occurring in line, in the set's iteration order.
RECURSIVE ImportHits(_, _)
ImportHits(line, imports) ==
    IF imports = <<>> THEN <<>>
    ELSE (IF Occurs(Head(imports), line) THEN <<Head(imports)>> ELSE <<>>)
         \o ImportHits(line, Tail(imports))

RECURSIVE ExpectedDependencies(_)
ExpectedDependencies(content) ==
    IF content = <<>> THEN <<>>
    ELSE DefinedHits(Head(content)) \o ImportHits(Head(content), in_file_imports)
         \o ExpectedDependencies(Tail(content))

Str_a == <<"a">>
Str_A == <<"A">>
Str_os == <<"o", "s">>
Str_helper == <<"h", "e", "l", "p", "e", "r">>
Str_target == <<"t", "a", "r", "g", "e", "t">>
Str_cat_line == <<" ", " ", " ", " ", "c", "a", "t", " ", "=", " ", "1">>

\* C4: the dependencies are, line by line, the defined names occurring in
\* the line as substrings (sorted) and then the import names occurring in
\* it; for import os / def helper / def target the list of target holds
\* helper before os.
C4_ScanOrder ==
    AfterScan =>
        /\ dependencies = ExpectedDependencies(extracted_content.content)
        /\ (disk.lines = <<1, 4, 5>> /\ method_or_cls = Str_target)
               => dependencies = <<Str_helper, Str_target, Str_os>>

\* The content holds the line "    cat = 1", where a occurs only inside
\* cat, and a is reported for it.
C4_Witness ==
    /\ pc = "done"
    /\ disk.lines = <<6, 8, 9>>
    /\ method_or_cls = Str_A
    /\ extracted_content.content[2] = Str_cat_line
    /\ Occurrences(Str_a, Str_cat_line) = 1
    /\ dependencies = <<Str_A, Str_a, Str_a>>

ScannedNames == Elements(in_file_defined_funcs_and_classes) \cup Elements(in_file_imports)

ContentOccurrences(n) ==
    Sum([i \in 1..Len(extracted_content.content) |->
             Occurrences(n, extracted_content.content[i])],
        Len(extracted_content.content))

LinesContaining(n) ==
    Cardinality({i \in 1..Len(extracted_content.content) :
                     Occurs(n, extracted_content.content[i])})

\* How many of the two name collections hold n.
Collections(n) ==
    (IF n \in Elements(in_file_defined_funcs_and_classes) THEN 1 ELSE 0)
    + (IF n \in Elements(in_file_imports) THEN 1 ELSE 0)

\* C5 as stated: the number of entries for a name equals its number of
\* occurrences in the content.
C5_EntryPerOccurrence ==
    AfterScan => \A n \in ScannedNames : Count(dependencies, n) = ContentOccurrences(n)

\* C5 amended: a name has one entry for every content line it occurs in,
\* however often it occurs there, once for each of the two collections
\* (defined names, import names) holding it.
C5_EntryPerLine ==
    AfterScan =>
        \A n \in ScannedNames :
            Count(dependencies, n) = LinesContaining(n) * Collections(n)

\* A name occurs on two lines of the content, several times on one of
\* them, and has two entries.
C5_Witness ==
    /\ pc = "done"
    /\ \E n \in ScannedNames :
           /\ Collections(n) = 1
           /\ LinesContaining(n) = 2
           /\ ContentOccurrences(n) > 2
           /\ Count(dependencies, n) = 2

\* The definition named name that a breadth-first traversal meets first:
\* the least nested one, and of those the first in the file.
FirstVisited(name) ==
    CHOOSE i \in DefLinesNamed(name) :
        \A j \in DefLinesNamed(name) \ {i} :
            \/ Pool[disk.lines[i]].ind < Pool[disk.lines[j]].ind
            \/ (Pool[disk.lines[i]].ind = Pool[disk.lines[j]].ind /\ i < j)

\* The last line of the definition on line i: the lines after it that
\* are indented deeper.
RECURSIVE LastLineOf(_, _)
LastLineOf(i, k) ==
    IF k < Len(disk.lines) /\ Pool[disk.lines[k + 1]].ind > Pool[disk.lines[i]].ind
    THEN LastLineOf(i, k + 1) ELSE k

\* C6: with two or more definitions named target, the span returned is
\* that of the one the traversal visits first, never a later one's.
C6_FirstVisitedWins ==
    (Parsed /\ AfterLocate /\ Cardinality(DefLinesNamed(method_or_cls)) >= 2) =>
        /\ target_content_lines.bound
        /\ start_lineno = FirstVisited(method_or_cls)
        /\ end_lineno = LastLineOf(start_lineno, start_lineno)

\* The nested definition comes first in the file, the top-level one is
\* visited first and wins.
C6_Witness ==
    /\ pc = "done"
    /\ disk.lines = <<6, 7, 9>>
    /\ method_or_cls = Str_a
    /\ start_lineno = 3

\* C7: two runs on the same file and target give the same dependencies
\* list, in the same order (stated for the runs whose content is the
\* matched span, so that the slicing plays no part).
C7_SameListTwice ==
    (/\ run = 2
     /\ pc = "done"
     /\ extracted_content.content = SubSeq(FileLines, start_lineno, end_lineno))
        => dependencies = first_dependencies

\* What the import statements of the file's lines name: X for import X,
\* M.X for from M import X, X for a from-import without module.
ExpectedImports ==
    UNION {
        {IF Pool[disk.lines[i]].type = "Import" \/ Pool[disk.lines[i]].module = <<>>
         THEN Pool[disk.lines[i]].names[k].name
         ELSE Pool[disk.lines[i]].module \o <<".">> \o Pool[disk.lines[i]].names[k].name :
            k \in 1..Len(Pool[disk.lines[i]].names)} :
        i \in {j \in 1..Len(disk.lines) : Pool[disk.lines[j]].type \in {"Import", "ImportFrom"}}}

\* C8: in_file_imports holds exactly the names of the file's import
\* statements (never an alias), each once.
C8_ImportNames ==
    AfterImports =>
        /\ Elements(in_file_imports) = ExpectedImports
        /\ \A i, j \in 1..Len(in_file_imports) :
               in_file_imports[i] = in_file_imports[j] => i = j

\* A plain import with an alias, a from-import without module and a
\* nested from-import with a module and an alias.
C8_Witness ==
    /\ pc = "done"
    /\ disk.lines = <<11, 2, 6, 3>>
    /\ Elements(in_file_imports) = {<<"m">>, Str_os, Str_a, <<"m", ".", "x">>}

\* C9 as stated: the handle is held only for the read and is released
\* before the text is parsed.
C9_ReleasedBeforeParsing ==
    /\ open_handles <= 1
    /\ open_handles = 1 => pc = "read"
    /\ pc = "done" => opens = 2

\* C9 amended: the handle is acquired twice in a run that reports, the
\* acquisitions do not overlap, and each is held from open() until the
\* with block is left, that is while the text is read and parsed; it is
\* released before the tree is walked and before any later step.
C9_HandleScoped ==
    /\ open_handles <= 1
    /\ open_handles = 1 <=> pc \in {"read", "parse", "with_exit"}
    /\ pc = "done" => opens = 2
    /\ opens <= 2

C9_Witness == pc = "done" /\ opens = 2 /\ open_handles = 0

\* C10: the dependencies of a successfully extracted target hold the
\* target itself.
C10_TargetAmongDependencies ==
    AfterScan => \E i \in 1..Len(dependencies) : dependencies[i] = method_or_cls

====
